---- MODULE Spec2Model ----
(***************************************************************************)
(* Model of src/abc_finger_region_recognizer.py: the minutiae scorer, the  *)
(* region selector, the ridge counter and the sealing of pipeline steps.   *)
(*                                                                         *)
(* A numpy array is the record [rows, cols, bg, ex]: its shape, a          *)
(* background value and the function ex from the cells <<r, c>> (0-based)  *)
(* that hold another value to that value.  Floats 0.0/1.0/2.0 and their    *)
(* sums are exact, so they are integers here.  The int8 arithmetic of the  *)
(* crossing number stays within -1..8 and cannot overflow.                 *)
(***************************************************************************)
EXTENDS Integers, Sequences, FiniteSets, TLC

VARIABLES
    pc,                       \* position in the run of the current specification
    thin_image,               \* self.thin_image: the skeleton, values in {0, 255}
    minutiae_weights_image,   \* self.minutiae_weights_image
    mask,                     \* self.mask: 0/1 validity mask
    block_size,               \* block_size handed to __get_best_region
    best_region,              \* result of __get_best_region (None is <<>>)
    line_result,              \* result of __count_lines: <<count, kind>>
    image,                    \* argument of __count_lines / __count_diagonal_lines
    i,                        \* loop index of __count_diagonal_lines
    counter,                  \* counter of __count_diagonal_lines
    is_white,                 \* is_white of __count_diagonal_lines
    binary_image,             \* local of __count_lines: the eroded, thresholded crop
    diagonals,                \* locals of __count_lines: <<main_diagonal, secondary_diagonal>>
    classes,                  \* subclasses created so far, in order: [base, dict, final, meta]
    trace                     \* steps executed by run(): sequence of <<step, owner>>

vars == <<pc, thin_image, minutiae_weights_image, mask, block_size, best_region,
          line_result, image, i, counter, is_white, binary_image, diagonals,
          classes, trace>>

(***************************************************************************)
(* Bounds of the model.                                                    *)
(***************************************************************************)
MaxScoreShape == 6    \* rows + cols of a skeleton handed to the scorer

(***************************************************************************)
(* Arrays.                                                                 *)
(***************************************************************************)
None == <<>>

NoArray == [rows |-> 0, cols |-> 0, bg |-> 0, ex |-> <<>>]

Cells(rows, cols) == (0 .. rows - 1) \X (0 .. cols - 1)

At(A, r, c) == IF <<r, c>> \in DOMAIN A.ex THEN A.ex[<<r, c>>] ELSE A.bg

\* All arrays of the given shape whose cells are bg except on some cells, which hold v.
TwoValued(rows, cols, bg, v) ==
    { [rows |-> rows, cols |-> cols, bg |-> bg, ex |-> [p \in S |-> v]] :
        S \in SUBSET Cells(rows, cols) }

Min(a, b) == IF a <= b THEN a ELSE b
Max(a, b) == IF a >= b THEN a ELSE b

(***************************************************************************)
(* MinutiaeScorer.                                                         *)
(***************************************************************************)
\* The ring walked by __detect_minutiae: pairs (k, l), read as image[row + l][col + k].
kernel == << <<-1, -1>>, <<-1, 0>>, <<-1, 1>>, <<0, 1>>, <<1, 1>>,
             <<1, 0>>, <<1, -1>>, <<0, -1>>, <<-1, -1>> >>

Abs(x) == IF x < 0 THEN -x ELSE x

RECURSIVE SumSeq(_)
SumSeq(s) == IF s = <<>> THEN 0 ELSE Head(s) + SumSeq(Tail(s))

detect_minutiae_swapped(img, row, col) ==
    IF At(img, row, col) = 1
    THEN LET values == [n \in 1 .. Len(kernel) |->
                          At(img, row + kernel[n][2], col + kernel[n][1])]
             crossings == SumSeq([n \in 1 .. Len(values) - 1 |->
                                    Abs(values[n] - values[n + 1])]) \div 2
         IN  IF crossings = 1 THEN "bifurcation"
             ELSE IF crossings = 3 THEN "termination"
             ELSE "none"
    ELSE "none"

detect_minutiae(img, row, col) ==
    IF At(img, row, col) = 1
    THEN LET values == [n \in 1 .. Len(kernel) |->
                          At(img, row + kernel[n][2], col + kernel[n][1])]
             crossings == SumSeq([n \in 1 .. Len(values) - 1 |->
                                    Abs(values[n] - values[n + 1])]) \div 2
         IN  IF crossings = 1 THEN "termination"
             ELSE IF crossings = 3 THEN "bifurcation"
             ELSE "none"
    ELSE "none"

\* (image == 0).astype(np.int8)
is_zero(img) ==
    [rows |-> img.rows, cols |-> img.cols,
     bg |-> IF img.bg = 0 THEN 1 ELSE 0,
     ex |-> [p \in DOMAIN img.ex |-> IF img.ex[p] = 0 THEN 1 ELSE 0]]

calculate_minutiae_weights(img) ==
    LET binary == is_zero(img)
        scanned == (1 .. img.rows - 2) \X (1 .. img.cols - 2)
        found == [p \in scanned |-> detect_minutiae(binary, p[1], p[2])]
        hit == { p \in scanned : found[p] # "none" }
    IN  [rows |-> img.rows, cols |-> img.cols, bg |-> 0,
         ex |-> [p \in hit |-> IF found[p] = "bifurcation" THEN 1 ELSE 2]]

(***************************************************************************)
(* RidgeCounter.                                                           *)
(***************************************************************************)
SetMin(S) == CHOOSE x \in S : \A y \in S : x <= y
SetMax(S) == CHOOSE x \in S : \A y \in S : x >= y

Neighbourhood(img, r, c) ==
    { At(img, r + dr, c + dc) : <<dr, dc>> \in
        { d \in (-1 .. 1) \X (-1 .. 1) :
            /\ r + d[1] \in 0 .. img.rows - 1
            /\ c + d[2] \in 0 .. img.cols - 1 } }

dilate(img) ==
    [rows |-> img.rows, cols |-> img.cols, bg |-> 0,
     ex |-> [p \in Cells(img.rows, img.cols) |-> SetMax(Neighbourhood(img, p[1], p[2]))]]

\* cv2.erode(image, np.ones((3, 3))): the minimum over the 3x3 neighbourhood; cells
\* outside the image do not take part (OpenCV's default border for an erosion).
erode(img) ==
    [rows |-> img.rows, cols |-> img.cols, bg |-> 0,
     ex |-> [p \in Cells(img.rows, img.cols) |-> SetMin(Neighbourhood(img, p[1], p[2]))]]

\* cv2.threshold(src, thresh, maxval, cv2.THRESH_BINARY)[1]
threshold(img, thresh, maxval) ==
    [rows |-> img.rows, cols |-> img.cols, bg |-> 0,
     ex |-> [p \in Cells(img.rows, img.cols) |-> IF At(img, p[1], p[2]) > thresh THEN maxval ELSE 0]]

\* np.fliplr
fliplr(img) ==
    [rows |-> img.rows, cols |-> img.cols, bg |-> 0,
     ex |-> [p \in Cells(img.rows, img.cols) |-> At(img, p[1], img.cols - 1 - p[2])]]

\* One iteration of the loop of __count_diagonal_lines on the diagonal cell v.
diagonal_step_no_reset(st, v) ==
    IF v = 0 /\ st.is_white
    THEN [counter |-> st.counter + 1, is_white |-> FALSE]
    ELSE st

diagonal_step_per_pixel(st, v) ==
    LET s1 == IF v = 0
              THEN [counter |-> st.counter + 1, is_white |-> FALSE]
              ELSE st
    IN  IF v = 255 THEN [s1 EXCEPT !.is_white = TRUE] ELSE s1

diagonal_step(st, v) ==
    LET s1 == IF v = 0 /\ st.is_white
              THEN [counter |-> st.counter + 1, is_white |-> FALSE]
              ELSE st
    IN  IF v = 255 THEN [s1 EXCEPT !.is_white = TRUE] ELSE s1

RECURSIVE diagonal_loop(_, _, _)
diagonal_loop(img, n, st) ==
    IF n >= img.rows THEN st
    ELSE diagonal_loop(img, n + 1, diagonal_step(st, At(img, n, n)))

count_diagonal_lines(img) ==
    diagonal_loop(img, 0, [counter |-> 0, is_white |-> TRUE]).counter

count_lines_strict(img) ==
    LET eroded_image == erode(img)
        binary == threshold(eroded_image, 127, 255)
        main_diagonal == count_diagonal_lines(binary)
        secondary_diagonal == count_diagonal_lines(fliplr(binary))
    IN  [binary_image |-> binary,
         diagonals |-> <<main_diagonal, secondary_diagonal>>,
         result |-> IF main_diagonal < secondary_diagonal
                    THEN <<secondary_diagonal, "secondary_diagonal">>
                    ELSE <<main_diagonal, "main_diagonal">>]

\* __count_lines, with its locals: the value returned is the field result.
count_lines(img) ==
    LET eroded_image == erode(img)
        binary == threshold(eroded_image, 127, 255)
        main_diagonal == count_diagonal_lines(binary)
        secondary_diagonal == count_diagonal_lines(fliplr(binary))
    IN  [binary_image |-> binary,
         diagonals |-> <<main_diagonal, secondary_diagonal>>,
         result |-> IF main_diagonal <= secondary_diagonal
                    THEN <<secondary_diagonal, "secondary_diagonal">>
                    ELSE <<main_diagonal, "main_diagonal">>]

(***************************************************************************)
(* Initial values of the variables a specification does not use.           *)
(***************************************************************************)
pipelineVars == <<thin_image, minutiae_weights_image, mask, block_size, best_region>>
countVars == <<line_result, image, binary_image, diagonals>>
diagVars == <<i, counter, is_white>>
sealVars == <<classes, trace>>

NoPipeline ==
    /\ thin_image = NoArray
    /\ minutiae_weights_image = NoArray
    /\ mask = NoArray
    /\ block_size = 0
    /\ best_region = None

NoCount ==
    /\ line_result = None
    /\ image = NoArray
    /\ binary_image = NoArray
    /\ diagonals = None

NoDiag ==
    /\ i = 0
    /\ counter = 0
    /\ is_white = TRUE

NoSeal ==
    /\ classes = <<>>
    /\ trace = <<>>

(***************************************************************************)
(* SpecScore: __calculate_minutiae_weights applied to every skeleton of    *)
(* the bounded shapes.                                                     *)
(***************************************************************************)
InitScore ==
    /\ pc = "score"
    /\ thin_image \in UNION { TwoValued(sh[1], sh[2], 255, 0) :
                                sh \in { x \in (3 .. MaxScoreShape) \X (3 .. MaxScoreShape) :
                                            x[1] + x[2] <= MaxScoreShape } }
    /\ minutiae_weights_image = NoArray
    /\ mask = NoArray
    /\ block_size = 0
    /\ best_region = None
    /\ NoCount /\ NoDiag /\ NoSeal

Score ==
    /\ pc = "score"
    /\ minutiae_weights_image' = calculate_minutiae_weights(thin_image)
    /\ pc' = "scored"
    /\ UNCHANGED <<thin_image, mask, block_size, best_region>>
    /\ UNCHANGED <<countVars, diagVars, sealVars>>

NextScore == Score

SpecScore == InitScore /\ [][NextScore]_vars

\* The ridge indicator of a skeleton cell and the crossing number of the claim: half
\* the sum of the absolute differences around the closed ring of the 8 neighbours.
Ridge(img, r, c) == IF At(img, r, c) = 0 THEN 1 ELSE 0

Ring == << <<-1, 0>>, <<-1, 1>>, <<0, 1>>, <<1, 1>>, <<1, 0>>, <<1, -1>>, <<0, -1>>,
           <<-1, -1>> >>

CrossingNumber(img, r, c) ==
    LET P(n) == Ridge(img, r + Ring[n][1], c + Ring[n][2])
    IN  SumSeq([n \in 1 .. 8 |-> Abs(P(n) - P((n % 8) + 1))]) \div 2

IsInterior(img, r, c) ==
    /\ r \in 1 .. img.rows - 2
    /\ c \in 1 .. img.cols - 2

ExpectedWeight(img, r, c) ==
    IF IsInterior(img, r, c) /\ At(img, r, c) = 0
    THEN LET cn == CrossingNumber(img, r, c)
         IN  IF cn = 1 THEN 2 ELSE IF cn = 3 THEN 1 ELSE 0
    ELSE 0

\* C3: after scoring, an interior ridge pixel with crossing number 1 has weight 2, with
\* crossing number 3 weight 1, with any other crossing number weight 0; every
\* non-ridge pixel and every border pixel has weight 0.
C3_ScorerWeights ==
    pc = "scored" =>
        /\ minutiae_weights_image.rows = thin_image.rows
        /\ minutiae_weights_image.cols = thin_image.cols
        /\ \A p \in Cells(thin_image.rows, thin_image.cols) :
              At(minutiae_weights_image, p[1], p[2])
                  = ExpectedWeight(thin_image, p[1], p[2])

\* A scored skeleton holding a bifurcation (weight 1).
C3_Witness ==
    /\ pc = "scored"
    /\ \E p \in Cells(thin_image.rows, thin_image.cols) :
          /\ CrossingNumber(thin_image, p[1], p[2]) = 3
          /\ At(minutiae_weights_image, p[1], p[2]) = 1

(***************************************************************************)
(* SpecCount: __count_lines applied to square crops with few ridge cells.  *)
(***************************************************************************)
MaxSide == 4
MaxRidge == 3

RECURSIVE SubsetsUpTo(_, _)
SubsetsUpTo(S, k) ==
    IF k = 0 THEN {{}}
    ELSE LET smaller == SubsetsUpTo(S, k - 1)
         IN  smaller \cup { T \cup {x} : T \in smaller, x \in S }

Crops ==
    UNION { { [rows |-> n, cols |-> n, bg |-> 255, ex |-> [p \in S |-> 0]] :
                S \in SubsetsUpTo(Cells(n, n), MaxRidge) } : n \in 1 .. MaxSide }

InitCount ==
    /\ pc = "count"
    /\ image \in Crops
    /\ line_result = None
    /\ binary_image = NoArray
    /\ diagonals = None
    /\ NoPipeline /\ NoDiag /\ NoSeal

CountLines ==
    /\ pc = "count"
    /\ LET res == count_lines(image)
       IN  /\ binary_image' = res.binary_image
           /\ diagonals' = res.diagonals
           /\ line_result' = res.result
    /\ pc' = "counted"
    /\ UNCHANGED <<image, pipelineVars, diagVars, sealVars>>

NextCount == CountLines

SpecCount == InitCount /\ [][NextCount]_vars

\* C6: the pair reported is (secondary count, secondary) when the main count is at
\* most the secondary count, (main count, main) only when it is strictly greater;
\* the count reported is the larger of the two.
C6_TieBreak ==
    pc = "counted" =>
        LET main == diagonals[1]
            secondary == diagonals[2]
        IN  /\ main <= secondary => line_result = <<secondary, "secondary_diagonal">>
            /\ main > secondary => line_result = <<main, "main_diagonal">>
            /\ line_result[1] = Max(main, secondary)

\* A crop whose two diagonals count the same, and not zero.
C6_Witness ==
    /\ pc = "counted"
    /\ diagonals[1] = diagonals[2]
    /\ diagonals[1] > 0
    /\ line_result[2] = "secondary_diagonal"

RidgeCells(img) == { p \in Cells(img.rows, img.cols) : At(img, p[1], p[2]) = 0 }

InBoundsAround(img, p) ==
    { q \in Cells(img.rows, img.cols) :
        Abs(q[1] - p[1]) <= 1 /\ Abs(q[2] - p[2]) <= 1 }

\* The crop holds exactly one ridge pixel, and it lies on the main diagonal.
SingleRidgeOnMain(img) ==
    \E k \in 0 .. img.rows - 1 : RidgeCells(img) = { <<k, k>> }

\* The crop holds exactly one ridge pixel, and it lies on the secondary diagonal.
SingleRidgeOnSecondary(img) ==
    \E k \in 0 .. img.rows - 1 : RidgeCells(img) = { <<k, img.cols - 1 - k>> }

\* C8, as amended: the 3x3 erosion is a minimum filter, so it grows the ridges: a cell
\* of the binarized crop is 0 exactly when some cell of its 3x3 neighbourhood in the
\* crop is a ridge cell, and is 255 otherwise; a crop whose only ridge pixel lies on a
\* diagonal counts 1 on that diagonal.
C8_ErosionGrowsRidges ==
    pc = "counted" =>
        /\ \A p \in Cells(image.rows, image.cols) :
              At(binary_image, p[1], p[2]) =
                  IF \E q \in InBoundsAround(image, p) : At(image, q[1], q[2]) = 0
                  THEN 0 ELSE 255
        /\ SingleRidgeOnMain(image) => diagonals[1] = 1
        /\ SingleRidgeOnSecondary(image) => diagonals[2] = 1

\* A counted crop whose only ridge pixel is on the main diagonal, away from the border.
C8_Witness ==
    /\ pc = "counted"
    /\ \E k \in 1 .. image.rows - 2 : RidgeCells(image) = { <<k, k>> }
    /\ diagonals[1] = 1

\* C8, as claimed: a single isolated ridge pixel on a diagonal counts 0 on that
\* diagonal, and only cells whose whole 3x3 neighbourhood is ridge stay 0.
C8_Original ==
    pc = "counted" =>
        /\ SingleRidgeOnMain(image) => diagonals[1] = 0
        /\ SingleRidgeOnSecondary(image) => diagonals[2] = 0
        /\ \A p \in Cells(image.rows, image.cols) :
              At(binary_image, p[1], p[2]) = 0 =>
                  \A q \in InBoundsAround(image, p) : At(image, q[1], q[2]) = 0

(***************************************************************************)
(* SpecDiag: the loop of __count_diagonal_lines, one iteration at a time,  *)
(* on square images with every pattern of ridge cells on the diagonal.     *)
(***************************************************************************)
MaxDiagSide == 5

DiagCrops ==
    UNION { { [rows |-> n, cols |-> n, bg |-> off,
               ex |-> [p \in { <<k, k>> : k \in 0 .. n - 1 } |->
                         IF p[1] \in S THEN 0 ELSE 255]] :
                S \in SUBSET (0 .. n - 1), off \in {0, 255} } :
            n \in 1 .. MaxDiagSide }

InitDiag ==
    /\ pc = "scan"
    /\ image \in DiagCrops
    /\ is_white = TRUE
    /\ counter = 0
    /\ i = 0
    /\ line_result = None
    /\ binary_image = NoArray
    /\ diagonals = None
    /\ NoPipeline /\ NoSeal

DiagIterate ==
    /\ pc = "scan"
    /\ i < image.rows
    /\ LET st == diagonal_step([counter |-> counter, is_white |-> is_white],
                               At(image, i, i))
       IN  /\ counter' = st.counter
           /\ is_white' = st.is_white
    /\ i' = i + 1
    /\ UNCHANGED <<pc, countVars, pipelineVars, sealVars>>

DiagReturn ==
    /\ pc = "scan"
    /\ i >= image.rows
    /\ pc' = "returned"
    /\ UNCHANGED <<diagVars, countVars, pipelineVars, sealVars>>

NextDiag == DiagIterate \/ DiagReturn

SpecDiag == InitDiag /\ [][NextDiag]_vars

DiagonalIsRidge(img, k) == At(img, k, k) = 0

AllBackground(img) == \A k \in 0 .. img.rows - 1 : At(img, k, k) = 255
AllRidge(img) == \A k \in 0 .. img.rows - 1 : DiagonalIsRidge(img, k)

\* The maximal contiguous runs of ridge cells on the diagonal, by their first cells.
Runs(img) ==
    Cardinality({ k \in 0 .. img.rows - 1 :
                    /\ DiagonalIsRidge(img, k)
                    /\ (k = 0 \/ ~DiagonalIsRidge(img, k - 1)) })

RidgeSeen == Cardinality({ k \in 0 .. i - 1 : DiagonalIsRidge(image, k) })

\* C5, as amended: an all-background diagonal counts 0; a diagonal that is ridge from
\* its first cell to its last counts 1, because the scan starts "on white" and so
\* counts the first cell.
C5_UniformDiagonal ==
    pc = "returned" =>
        /\ AllBackground(image) => counter = 0
        /\ AllRidge(image) => counter = 1

\* A finished scan of an all-ridge diagonal of at least two cells.
C5_Witness ==
    /\ pc = "returned"
    /\ image.rows >= 2
    /\ AllRidge(image)
    /\ counter = 1

\* C5, as claimed: a diagonal that is ridge from its first cell to its last counts 0.
C5_Original ==
    pc = "returned" =>
        /\ AllBackground(image) => counter = 0
        /\ AllRidge(image) => counter = 0

\* C7: the counter returned is the number of maximal contiguous runs of ridge cells
\* on the diagonal, and at every step of the scan the counter is at most the number
\* of ridge cells seen so far.
C7_CountsRuns ==
    /\ pc \in {"scan", "returned"} => counter <= RidgeSeen
    /\ pc = "returned" => counter = Runs(image)

\* A finished scan that met two runs, one of them longer than one cell.
C7_Witness ==
    /\ pc = "returned"
    /\ Runs(image) = 2
    /\ counter = 2
    /\ \E k \in 1 .. image.rows - 1 :
          DiagonalIsRidge(image, k) /\ DiagonalIsRidge(image, k - 1)

(***************************************************************************)
(* RegionSelector.                                                         *)
(***************************************************************************)
BlocksPerSide == 8

RECURSIVE SumOver(_, _)
SumOver(f, S) ==
    IF S = {} THEN 0
    ELSE LET p == CHOOSE x \in S : TRUE
         IN  f[p] + SumOver(f, S \ {p})

\* np.sum(A[a0:a1, b0:b1]) for bounds >= 0: numpy clips the slice to the array.
slice_sum(A, a0, a1, b0, b1) ==
    LET r0 == Min(a0, A.rows)
        r1 == Min(a1, A.rows)
        c0 == Min(b0, A.cols)
        c1 == Min(b1, A.cols)
        area == Max(r1 - r0, 0) * Max(c1 - c0, 0)
        inside == { p \in DOMAIN A.ex :
                      /\ r0 <= p[1] /\ p[1] < r1
                      /\ c0 <= p[2] /\ p[2] < c1 }
    IN  A.bg * (area - Cardinality(inside)) + SumOver(A.ex, inside)

\* float("inf") and the comparison of a sum with the running minimum.
Infinity == [inf |-> TRUE, val |-> 0]
Finite(x) == [inf |-> FALSE, val |-> x]
Leq(x, w) == w.inf \/ x <= w.val
Less(x, w) == w.inf \/ x < w.val

\* The locals of __get_best_region that its loops read.
scan_context(thin, weights, block, msk) ==
    LET shape_block == block * BlocksPerSide
    IN  [rows |-> thin.rows, cols |-> thin.cols, block_size |-> block,
         shape_block |-> shape_block,
         window |-> (shape_block \div block) - 1,
         weights |-> weights, mask |-> msk]

\* The body of the two loops for one (col, row).
visit_first_wins(ctx, col, row, st) ==
    LET B == ctx.block_size
        S == ctx.shape_block
        mask_flag == slice_sum(ctx.mask, col * B, col * B + S, row * B, row * B + S)
        number_vision_problems ==
            slice_sum(ctx.weights, col * B, col * B + S, row * B, row * B + S)
    IN  IF mask_flag = S * S /\ Less(number_vision_problems, st.block_minutiaes_weight)
        THEN [block_minutiaes_weight |-> Finite(number_vision_problems),
              best_region |-> <<col * B, col * B + S, row * B, row * B + S>>]
        ELSE st

visit_clipped_ok(ctx, col, row, st) ==
    LET B == ctx.block_size
        S == ctx.shape_block
        mask_flag == slice_sum(ctx.mask, col * B, col * B + S, row * B, row * B + S)
        clipped == (Min(col * B + S, ctx.mask.rows) - Min(col * B, ctx.mask.rows))
                     * (Min(row * B + S, ctx.mask.cols) - Min(row * B, ctx.mask.cols))
        number_vision_problems ==
            slice_sum(ctx.weights, col * B, col * B + S, row * B, row * B + S)
    IN  IF mask_flag = clipped /\ Leq(number_vision_problems, st.block_minutiaes_weight)
        THEN [block_minutiaes_weight |-> Finite(number_vision_problems),
              best_region |-> <<col * B, col * B + S, row * B, row * B + S>>]
        ELSE st

visit(ctx, col, row, st) ==
    LET B == ctx.block_size
        S == ctx.shape_block
        mask_flag == slice_sum(ctx.mask, col * B, col * B + S, row * B, row * B + S)
        number_vision_problems ==
            slice_sum(ctx.weights, col * B, col * B + S, row * B, row * B + S)
    IN  IF mask_flag = S * S /\ Leq(number_vision_problems, st.block_minutiaes_weight)
        THEN [block_minutiaes_weight |-> Finite(number_vision_problems),
              best_region |-> <<col * B, col * B + S, row * B, row * B + S>>]
        ELSE st

\* The stop of range(1, n - window).
range_stop_short(n, window) == n - window - 1

range_stop(n, window) == n - window

\* Python runs the body of a loop before its next iteration. TLC computes an
\* argument only when it is read; Evaluated(x) reads x, and is always true.
Evaluated(x) == x = x

RECURSIVE row_loop(_, _, _, _)
row_loop(ctx, col, row, st) ==
    IF row >= range_stop(ctx.rows, ctx.window) THEN st
    ELSE LET next == visit(ctx, col, row, st)
         IN  IF Evaluated(next) THEN row_loop(ctx, col, row + 1, next) ELSE next

RECURSIVE col_loop(_, _, _)
col_loop(ctx, col, st) ==
    IF col >= range_stop(ctx.cols, ctx.window) THEN st
    ELSE LET next == row_loop(ctx, col, 1, st)
         IN  IF Evaluated(next) THEN col_loop(ctx, col + 1, next) ELSE next

\* A region is a non-empty list, so "if best_region" is "best_region is not None".
get_best_region(thin, weights, block, msk) ==
    col_loop(scan_context(thin, weights, block, msk), 1,
             [block_minutiaes_weight |-> Infinity, best_region |-> None]).best_region

(***************************************************************************)
(* SpecSelect: __get_best_region applied to images of the bounded shapes,  *)
(* square or not, with masks that are valid everywhere, nowhere, or        *)
(* everywhere but one cell, and weight images with a few weighted cells.   *)
(***************************************************************************)
MaxRows == 22
MaxCols == 18
MaxBlock == 2
DimSlack == 4       \* a dimension is at most this much above a multiple of MinDim
GridStep == 8       \* the candidate cells of holes and weights lie on a grid

\* The smallest dimension with a window inside the image for block size 1.
MinDim == BlocksPerSide + 1

Dims(max) == { d \in MinDim .. max : d % MinDim <= DimSlack }

GridCells(rows, cols, off) ==
    { p \in Cells(rows, cols) : p[1] % GridStep = off /\ p[2] % GridStep = off }

Masks(rows, cols) ==
    { [rows |-> rows, cols |-> cols, bg |-> 0, ex |-> <<>>] }
    \cup { [rows |-> rows, cols |-> cols, bg |-> 1, ex |-> [p \in H |-> 0]] :
             H \in SubsetsUpTo(GridCells(rows, cols, 2), 1) }

WeightImages(rows, cols) ==
    UNION { [W -> {1, 2}] : W \in SubsetsUpTo(GridCells(rows, cols, 3), 2) }

InitSelect ==
    /\ pc = "select"
    /\ \E rows \in Dims(MaxRows), cols \in Dims(MaxCols) :
          /\ thin_image = [rows |-> rows, cols |-> cols, bg |-> 255, ex |-> <<>>]
          /\ mask \in Masks(rows, cols)
          /\ \E w \in WeightImages(rows, cols) :
                minutiae_weights_image =
                    [rows |-> rows, cols |-> cols, bg |-> 0, ex |-> w]
    /\ block_size \in 1 .. MaxBlock
    /\ best_region = None
    /\ NoCount /\ NoDiag /\ NoSeal

Select ==
    /\ pc = "select"
    /\ best_region' = get_best_region(thin_image, minutiae_weights_image,
                                      block_size, mask)
    /\ pc' = "selected"
    /\ UNCHANGED <<thin_image, minutiae_weights_image, mask, block_size>>
    /\ UNCHANGED <<countVars, diagVars, sealVars>>

NextSelect == Select

SpecSelect == InitSelect /\ [][NextSelect]_vars

\* The S-by-S footprint with origin (a, b) lies inside A and holds only the value 1.
InFootprint(p, a, b, S) ==
    /\ a <= p[1] /\ p[1] < a + S
    /\ b <= p[2] /\ p[2] < b + S

FullyValid(A, a, b, S) ==
    /\ a + S <= A.rows
    /\ b + S <= A.cols
    /\ IF A.bg = 1
       THEN \A p \in DOMAIN A.ex : InFootprint(p, a, b, S) => A.ex[p] = 1
       ELSE \A r \in a .. a + S - 1, c \in b .. b + S - 1 : At(A, r, c) = 1

\* The total weight of a footprint that lies inside A.
FootprintWeight(A, a, b, S) ==
    LET inside == { p \in DOMAIN A.ex : InFootprint(p, a, b, S) }
    IN  A.bg * (S * S - Cardinality(inside)) + SumOver(A.ex, inside)

SideLength == BlocksPerSide * block_size

\* The block indices (c, r) the two loops visit.
ScannedBlocks ==
    (1 .. thin_image.cols - BlocksPerSide) \X (1 .. thin_image.rows - BlocksPerSide)

AcceptedBlocks(blocks) ==
    { w \in blocks :
        FullyValid(mask, w[1] * block_size, w[2] * block_size, SideLength) }

BlockWeight(w) ==
    FootprintWeight(minutiae_weights_image, w[1] * block_size, w[2] * block_size,
                    SideLength)

RegionOf(w) ==
    << w[1] * block_size, w[1] * block_size + SideLength,
       w[2] * block_size, w[2] * block_size + SideLength >>

\* w comes no later than v in scan order: outer loop on the first index.
NoLater(w, v) == w[1] < v[1] \/ (w[1] = v[1] /\ w[2] <= v[2])

\* C1: a returned region is [a, a+S, b, b+S] with its footprint inside the mask and
\* every mask cell of it valid; when no scanned window is fully valid the result is
\* None.
C1_ReturnedRegionFullyValid ==
    pc = "selected" =>
        /\ best_region # None =>
              /\ Len(best_region) = 4
              /\ best_region[2] = best_region[1] + SideLength
              /\ best_region[4] = best_region[3] + SideLength
              /\ FullyValid(mask, best_region[1], best_region[3], SideLength)
              /\ slice_sum(mask, best_region[1], best_region[2],
                           best_region[3], best_region[4]) = SideLength * SideLength
        /\ AcceptedBlocks(ScannedBlocks) = {} => best_region = None

\* A selection that returned a region although some scanned window inside the mask
\* holds an invalid cell.
C1_Witness ==
    /\ pc = "selected"
    /\ best_region # None
    /\ \E w \in ScannedBlocks :
          /\ w[1] * block_size + SideLength <= mask.rows
          /\ w[2] * block_size + SideLength <= mask.cols
          /\ w \notin AcceptedBlocks(ScannedBlocks)

\* C2: the returned window has the least total weight of the scanned windows that
\* pass the mask check, and of those with that weight it is the last in scan order.
C2_MinimumWeightLastTie ==
    pc = "selected" =>
        LET accepted == AcceptedBlocks(ScannedBlocks)
            weight == [w \in accepted |-> BlockWeight(w)]
        IN  accepted # {} =>
              \E v \in accepted :
                 /\ best_region = RegionOf(v)
                 /\ \A w \in accepted :
                       /\ weight[v] <= weight[w]
                       /\ weight[w] = weight[v] => NoLater(w, v)

\* A selection among windows of different weights in which two windows tie for the
\* least weight.
C2_Witness ==
    /\ pc = "selected"
    /\ best_region # None
    /\ LET accepted == AcceptedBlocks(ScannedBlocks)
           weight == [w \in accepted |-> BlockWeight(w)]
       IN  \E v \in accepted :
              /\ best_region = RegionOf(v)
              /\ \E w \in accepted : w # v /\ weight[w] = weight[v]
              /\ \E x \in accepted : weight[x] > weight[v]

\* The region a scan of the given block indices returns: of the accepted windows
\* with the least weight, the last in scan order.
ScanResult(blocks) ==
    LET accepted == AcceptedBlocks(blocks)
        weight == [w \in accepted |-> BlockWeight(w)]
    IN  IF accepted = {} THEN None
        ELSE LET m == SetMin({ weight[w] : w \in accepted })
                 least == { v \in accepted : weight[v] = m }
                 c == SetMax({ v[1] : v \in least })
                 r == SetMax({ v[2] : v \in { x \in least : x[1] = c } })
             IN  RegionOf(<<c, r>>)

\* C9, as amended: the region returned is that of a scan of the column block indices
\* 1 .. cols - window_span - 1 and the row block indices 1 .. rows - window_span - 1,
\* the image dimensions not divided by B; a window that runs past the mask is
\* clipped there and so fails the mask check.
C9_ScanRange ==
    pc = "selected" =>
        best_region =
            ScanResult((1 .. thin_image.cols - (BlocksPerSide - 1) - 1)
                       \X (1 .. thin_image.rows - (BlocksPerSide - 1) - 1))

\* A selection on an image that is not square, with block size above 1, that returns
\* a window.
C9_Witness ==
    /\ pc = "selected"
    /\ block_size > 1
    /\ thin_image.rows # thin_image.cols
    /\ best_region # None

\* cols/B - window_span, rows/B - window_span.
ClaimedEnd(n) == (n \div block_size) - (BlocksPerSide - 1)

\* C9, as claimed: the region returned is that of a scan of the column block indices
\* 1 to cols/B - window_span and the row block indices 1 to rows/B - window_span,
\* the upper ends read either as the stop of a range or as the last index visited.
C9_Original ==
    pc = "selected" =>
        best_region \in
            { ScanResult((1 .. ClaimedEnd(thin_image.cols) - 1)
                         \X (1 .. ClaimedEnd(thin_image.rows) - 1)),
              ScanResult((1 .. ClaimedEnd(thin_image.cols))
                         \X (1 .. ClaimedEnd(thin_image.rows))) }

(***************************************************************************)
(* SpecPipeline: the scorer, the selector and the counter in the order of  *)
(* sixth_step and seventh_step, on square skeletons that are all           *)
(* background or hold one two-pixel ridge, under masks that are valid      *)
(* everywhere, nowhere, or everywhere but one cell.                        *)
(***************************************************************************)
PipelineSide == 32
DefaultBlockSize == 15

\* A[r0:r1, c0:c1] for bounds >= 0.
crop(A, a0, a1, b0, b1) ==
    LET r0 == Min(a0, A.rows)
        r1 == Min(a1, A.rows)
        c0 == Min(b0, A.cols)
        c1 == Min(b1, A.cols)
        kept == { p \in DOMAIN A.ex :
                    /\ r0 <= p[1] /\ p[1] < r1
                    /\ c0 <= p[2] /\ p[2] < c1 }
    IN  [rows |-> Max(r1 - r0, 0), cols |-> Max(c1 - c0, 0), bg |-> A.bg,
         ex |-> [q \in { <<p[1] - r0, p[2] - c0>> : p \in kept } |->
                   A.ex[<<q[1] + r0, q[2] + c0>>]]]

Skeletons(n) ==
    { [rows |-> n, cols |-> n, bg |-> 255, ex |-> <<>>] }
    \cup { [rows |-> n, cols |-> n, bg |-> 255,
            ex |-> [p \in { g, <<g[1], g[2] + 1>> } |-> 0]] :
             g \in { x \in GridCells(n, n, 4) : x[1] = x[2] } }

InitPipeline ==
    /\ pc = "score"
    /\ thin_image \in Skeletons(PipelineSide)
    /\ mask \in Masks(PipelineSide, PipelineSide)
    /\ block_size \in {1, DefaultBlockSize}
    /\ minutiae_weights_image = NoArray
    /\ best_region = None
    /\ NoCount /\ NoDiag /\ NoSeal

\* seventh_step with __draw_ridges_count_on_region up to the call of __count_lines;
\* the block size is read from block_size (seventh_step itself fixes it to 15).
SelectAndCount ==
    /\ pc = "scored"
    /\ LET region == get_best_region(thin_image, minutiae_weights_image,
                                     block_size, mask)
       IN  /\ best_region' = region
           /\ IF region = None
              THEN UNCHANGED <<line_result, image, binary_image, diagonals>>
              ELSE LET region_copy == crop(thin_image, region[1], region[2],
                                           region[3], region[4])
                       res == count_lines(region_copy)
                   IN  /\ image' = region_copy
                       /\ binary_image' = res.binary_image
                       /\ diagonals' = res.diagonals
                       /\ line_result' = res.result
    /\ pc' = "done"
    /\ UNCHANGED <<thin_image, minutiae_weights_image, mask, block_size>>
    /\ UNCHANGED <<diagVars, sealVars>>

NextPipeline == Score \/ SelectAndCount

SpecPipeline == InitPipeline /\ [][NextPipeline]_vars

AllValue(A, v) == A.bg = v /\ \A p \in DOMAIN A.ex : A.ex[p] = v

\* The scenario: an all-background skeleton, a mask valid everywhere, block size 1.
Scenario ==
    /\ AllValue(thin_image, 255)
    /\ thin_image.rows = thin_image.cols
    /\ AllValue(mask, 1)
    /\ block_size = 1

\* C4, as amended: in the scenario the weight image is all zeros, the region returned
\* is the last scanned fully valid window (all windows tie at weight 0; for 32x32 the
\* block indices c = 24, r = 24, region [24, 32, 24, 32]), and the counter returns
\* (0, secondary) on it.
C4_EndToEnd ==
    (pc = "done" /\ Scenario) =>
        /\ AllValue(minutiae_weights_image, 0)
        /\ best_region = << thin_image.rows - BlocksPerSide, thin_image.rows,
                            thin_image.cols - BlocksPerSide, thin_image.cols >>
        /\ line_result = <<0, "secondary_diagonal">>

\* The finished run of the 32x32 scenario.
C4_Witness ==
    /\ pc = "done"
    /\ Scenario
    /\ thin_image.rows = PipelineSide
    /\ best_region = << PipelineSide - BlocksPerSide, PipelineSide,
                        PipelineSide - BlocksPerSide, PipelineSide >>
    /\ image.rows = BlocksPerSide

\* C4, as claimed: in the scenario the region returned is the window of the first
\* iteration of the scan, block indices c = 1, r = 1.
C4_Original ==
    (pc = "done" /\ Scenario) =>
        /\ AllValue(minutiae_weights_image, 0)
        /\ best_region = RegionOf(<<1, 1>>)
        /\ line_result = <<0, "secondary_diagonal">>

(***************************************************************************)
(* Sealed steps: class creation under the metaclass of the template, and   *)
(* the dispatch of run().  classes holds the subclasses created so far;    *)
(* a class is named by its index there, the template by 0.                 *)
(***************************************************************************)
MaxSubclasses == 2

Hooks == {"first_step", "second_step", "third_step", "fourth_step"}

\* The methods decorated with @Access.final.
FinalMarked == {"run", "fifth_step", "sixth_step", "seventh_step"}

\* class FingerRegionRecognizerTemplate(ABC): its metaclass is that of ABC.
Template ==
    [base |-> 0, dict |-> Hooks \cup FinalMarked, final |-> FinalMarked,
     meta |-> "ABCMeta"]

ClassAt(k) == IF k = 0 THEN Template ELSE classes[k]

\* Access.__is_final: the method carries the mark set by Access.final.
is_final(k, key) == key \in ClassAt(k).final

\* Access.__new__(mcs, name, bases, class_dict): whether it raises.
Access_new_raises(bases, class_dict) ==
    LET private == { key \in UNION { ClassAt(b).dict : b \in bases } :
                       \E b \in bases : key \in ClassAt(b).dict /\ is_final(b, key) }
    IN  \E key \in class_dict : key \in private

\* The class statement: the metaclass of a subclass is the metaclass of its base, and
\* only the metaclass Access runs Access.__new__.
class_statement_raises(base, class_dict) ==
    /\ ClassAt(base).meta = "Access"
    /\ Access_new_raises({base}, class_dict)

\* The bodies a subclass may have: the four hooks or none of them, and any of the
\* sealed methods.
Bodies == { H \cup F : H \in {{}, Hooks}, F \in SUBSET FinalMarked }

RECURSIVE Resolve(_, _)
Resolve(k, method) ==
    IF k = 0 \/ method \in ClassAt(k).dict THEN k
    ELSE Resolve(ClassAt(k).base, method)

\* ABC refuses to instantiate a class with an abstract method left.
IsConcrete(k) == \A h \in Hooks : Resolve(k, h) # 0

RunOrder == << "first_step", "second_step", "third_step", "fourth_step",
               "fifth_step", "sixth_step", "seventh_step" >>

\* The steps an instance of class k executes on run(), each with the class whose
\* method runs; an overriding run() is one step of its own.
run(k) ==
    IF Resolve(k, "run") = 0
    THEN [n \in 1 .. Len(RunOrder) |-> <<RunOrder[n], Resolve(k, RunOrder[n])>>]
    ELSE << <<"run", Resolve(k, "run")>> >>

InitSeal ==
    /\ pc = "ready"
    /\ classes = <<>>
    /\ trace = <<>>
    /\ NoPipeline /\ NoCount /\ NoDiag

DefineSubclass ==
    /\ Len(classes) < MaxSubclasses
    /\ \E base \in 0 .. Len(classes), class_dict \in Bodies :
          IF class_statement_raises(base, class_dict)
          THEN /\ pc' = "RuntimeError"
               /\ UNCHANGED classes
          ELSE /\ pc' = "defined"
               /\ classes' = Append(classes,
                                    [base |-> base, dict |-> class_dict, final |-> {},
                                     meta |-> ClassAt(base).meta])
    /\ UNCHANGED <<trace, pipelineVars, countVars, diagVars>>

Run ==
    /\ \E k \in 1 .. Len(classes) :
          /\ IsConcrete(k)
          /\ trace' = run(k)
    /\ pc' = "ran"
    /\ UNCHANGED <<classes, pipelineVars, countVars, diagVars>>

NextSeal == DefineSubclass \/ Run

SpecSeal == InitSeal /\ [][NextSeal]_vars

\* C10: no subclass that overrides a method marked with Access.final exists, and
\* every run of a concrete recognizer executes the seven steps in order, the fifth,
\* sixth and seventh being the built-in ones.
C10_SealedSteps ==
    /\ \A k \in 1 .. Len(classes) : classes[k].dict \cap FinalMarked = {}
    /\ pc = "ran" =>
          /\ Len(trace) = Len(RunOrder)
          /\ \A n \in 1 .. Len(trace) : trace[n][1] = RunOrder[n]
          /\ \A n \in 5 .. 7 : trace[n][2] = 0

====
